---- MODULE Spec2Model ----
(***************************************************************************)
(* Regular expression -> postfix -> Thompson NFA -> DFA, as implemented by *)
(* AutomatonConverter in src/Regular_Expression_to_DFA.py.                 *)
(*                                                                         *)
(* A regex is a sequence of one-character strings.  NFA states are the     *)
(* numbers 1..Len(trans) in creation order; trans[i] is the transitions    *)
(* dict of state i (a function from the symbols it holds to the list of    *)
(* target states).  DFA states are the records of dfa_objs, addressed by   *)
(* index (object identity); dfa_states is the dict from a defining set to  *)
(* the index of its DFAState object.                                       *)
(***************************************************************************)
EXTENDS Integers, Sequences, FiniteSets, TLC

VARIABLES
    regex,        \* self.regex
    pc,           \* position in regex_to_dfa
    err,          \* which statement raised, "" when none did
    modified,     \* modified_regex of regex_to_postfix
    pos,          \* index of the next character of the current scan
    stack,        \* operator stack of regex_to_postfix
    output,       \* output list of regex_to_postfix
    postfix,      \* value returned by regex_to_postfix
    nstack,       \* fragment stack of construct_nfa
    trans,        \* transitions dict of every NFAState created so far
    nfa_start,    \* pair returned by construct_nfa
    nfa_accept,
    dfa_objs,     \* the DFAState objects, in creation order
    dfa_states,   \* dict: defining set -> DFAState
    queue,        \* worklist of nfa_to_dfa
    dfa_start,
    dead_state,
    cur,          \* current_dfa_state (0 between two iterations)
    syms_left,    \* symbols the inner for loop has not visited yet
    ec_in,        \* argument of a direct epsilon_closure call
    ec_out,       \* its result
    ec_twice      \* result of epsilon_closure applied to ec_out

vars == <<regex, pc, err, modified, pos, stack, output, postfix, nstack, trans,
          nfa_start, nfa_accept, dfa_objs, dfa_states, queue, dfa_start,
          dead_state, cur, syms_left, ec_in, ec_out, ec_twice>>

----------------------------------------------------------------------------
(* Bounds of the model *)

\* longest regex drawn from all strings over Chars
MaxLen == 3

\* longest input string the automata are run on
MaxStr == 3

\* largest seed set handed to a direct epsilon_closure call
MaxSeed == 2

\* sets up to this size are listed in every order, larger ones in two orders
MaxPerm == 3

----------------------------------------------------------------------------
(* Alphabets *)

\* characters for which str.isalnum() holds (the reserved 'ε' is kept out)
Literals == {"a", "b", "c"}

Chars == Literals \cup {"(", ")", "*", "+"}

\* the key 'ε' of the transitions dicts
EPS == "eps"

isalnum(char) == char \in Literals

\* the example of the source and regexes longer than MaxLen
Canonical ==
    <<"(", "a", "+", "b", "+", "c", ")", "(", "a", "+", "b", ")", "*", "c">>

Extras ==
    { Canonical,
      <<"(", "a", "+", "b">>,
      <<"(", "a", "b", ")", "*">>,
      <<"(", "a", "+", "b", ")", "*">>,
      <<"(", "a", "+", "b", ")", "*", "c">>,
      <<"(", "a", "*", "b", ")", "*">>,
      <<"(", "a", "*", ")", "*">>,
      <<"a", "(", "b", "+", "c", ")">>,
      <<"a", "+", "b", "*", "c">>,
      <<"a", "*", "b", "*">> }

Inputs == UNION {[1..n -> Chars] : n \in 0..MaxLen} \cup Extras

----------------------------------------------------------------------------
(* Python containers *)

EmptyDict == [k \in {} |-> <<>>]

\* d[k] = v
DictSet(d, k, v) == [x \in DOMAIN d \cup {k} |-> IF x = k THEN v ELSE d[x]]

\* d.get(k, [])
DictGet(d, k) == IF k \in DOMAIN d THEN d[k] ELSE <<>>

Range(s) == {s[i] : i \in DOMAIN s}

Top(s) == s[Len(s)]

Pop(s) == SubSeq(s, 1, Len(s) - 1)

\* the orders in which list(S) may enumerate the set S
Ascending(S) ==
    LET RECURSIVE asc(_)
        asc(T) == IF T = {} THEN <<>>
                  ELSE LET m == CHOOSE x \in T : \A y \in T : x <= y
                       IN <<m>> \o asc(T \ {m})
    IN asc(S)

Reverse(s) == [i \in 1..Len(s) |-> s[Len(s) + 1 - i]]

ListOf(S) ==
    IF Cardinality(S) <= MaxPerm
    THEN {p \in [1..Cardinality(S) -> S] : Range(p) = S}
    ELSE {Ascending(S), Reverse(Ascending(S))}

----------------------------------------------------------------------------
(* regex_to_postfix *)

\* a precedence table in which union binds as tightly as concatenation
precedence_flat(op) ==
    CASE op = "*" -> 3
      [] op = "." -> 2
      [] op = "+" -> 2
      [] OTHER -> 0

precedence(op) ==
    CASE op = "*" -> 3
      [] op = "." -> 2
      [] op = "+" -> 1
      [] OTHER -> 0

\* the insertion rule without the case of a star on the left
NeedsConcat_nostar(left, right) ==
    /\ isalnum(left) \/ left = ")"
    /\ isalnum(right) \/ right = "("

NeedsConcat(left, right) ==
    /\ isalnum(left) \/ left = "*" \/ left = ")"
    /\ isalnum(right) \/ right = "("

RECURSIVE InsertFrom(_, _)
InsertFrom(r, i) ==
    IF i > Len(r) THEN <<>>
    ELSE <<r[i]>>
         \o (IF i + 1 <= Len(r) /\ NeedsConcat(r[i], r[i + 1]) THEN <<".">> ELSE <<>>)
         \o InsertFrom(r, i + 1)

insert_concatenation_operators(r) == InsertFrom(r, 1)

\* while stack and stack[-1] != '(': output.append(stack.pop())
RECURSIVE PopToParen(_, _)
PopToParen(stk, out) ==
    IF stk # <<>> /\ Top(stk) # "("
    THEN PopToParen(Pop(stk), Append(out, Top(stk)))
    ELSE [stack |-> stk, output |-> out]

\* while stack and precedence.get(stack[-1], 0) >= precedence.get(char, 0): ...
RECURSIVE PopHigher(_, _, _)
PopHigher(stk, out, char) ==
    IF stk # <<>> /\ precedence(Top(stk)) >= precedence(char)
    THEN PopHigher(Pop(stk), Append(out, Top(stk)), char)
    ELSE [stack |-> stk, output |-> out]

\* while stack: output.append(stack.pop())
RECURSIVE Drain(_, _)
Drain(stk, out) ==
    IF stk # <<>> THEN Drain(Pop(stk), Append(out, Top(stk))) ELSE out

\* one iteration of the for loop of regex_to_postfix
PostfixStep(stk, out, char) ==
    IF isalnum(char) THEN [stack |-> stk, output |-> Append(out, char), raised |-> FALSE]
    ELSE IF char = "(" THEN [stack |-> Append(stk, char), output |-> out, raised |-> FALSE]
    ELSE IF char = ")" THEN
        LET r == PopToParen(stk, out)
        IN IF r.stack = <<>>
           THEN [stack |-> r.stack, output |-> r.output, raised |-> TRUE]
           ELSE [stack |-> Pop(r.stack), output |-> r.output, raised |-> FALSE]
    ELSE
        LET r == PopHigher(stk, out, char)
        IN [stack |-> Append(r.stack, char), output |-> r.output, raised |-> FALSE]

----------------------------------------------------------------------------
(* construct_nfa *)

\* a concatenation that keeps the left operand's accept state as its exit
ConcatFragment_left(f1, f2) == <<f1[1], f1[2]>>

\* stack.append((nfa1_start, nfa2_accept))
ConcatFragment(f1, f2) == <<f1[1], f2[2]>>

\* one iteration of the for loop of construct_nfa
NfaStep(stk, tr, char) ==
    LET n == Len(tr)
        k == Len(stk)
        ok(s, t) == [stack |-> s, trans |-> t, raised |-> FALSE]
        raise == [stack |-> stk, trans |-> tr, raised |-> TRUE]
    IN
    IF isalnum(char) THEN
        ok(Append(stk, <<n + 1, n + 2>>),
           tr \o <<DictSet(EmptyDict, char, <<n + 2>>), EmptyDict>>)
    ELSE IF char = "*" THEN
        IF k < 1 THEN raise
        ELSE LET f == stk[k]
                 t1 == tr \o <<DictSet(EmptyDict, EPS, <<f[1], n + 2>>), EmptyDict>>
                 t2 == [t1 EXCEPT ![f[2]] = DictSet(@, EPS, <<f[1], n + 2>>)]
             IN ok(Append(Pop(stk), <<n + 1, n + 2>>), t2)
    ELSE IF char = "." THEN
        IF k < 2 THEN raise
        ELSE LET f2 == stk[k]
                 f1 == stk[k - 1]
                 t1 == [tr EXCEPT ![f1[2]] = DictSet(@, EPS, <<f2[1]>>)]
             IN ok(Append(Pop(Pop(stk)), ConcatFragment(f1, f2)), t1)
    ELSE IF char = "+" THEN
        IF k < 2 THEN raise
        ELSE LET f2 == stk[k]
                 f1 == stk[k - 1]
                 t1 == tr \o <<DictSet(EmptyDict, EPS, <<f1[1], f2[1]>>), EmptyDict>>
                 t2 == [t1 EXCEPT ![f1[2]] = DictSet(@, EPS, <<n + 2>>)]
                 t3 == [t2 EXCEPT ![f2[2]] = DictSet(@, EPS, <<n + 2>>)]
             IN ok(Append(Pop(Pop(stk)), <<n + 1, n + 2>>), t3)
    ELSE ok(stk, tr)

----------------------------------------------------------------------------
(* epsilon_closure and move *)

\* while stack: state = stack.pop(); for next_state in
\* state.transitions.get('ε', []): ...   (targets[i..] are the targets of the
\* popped state that the for loop has not visited yet)
RECURSIVE ClosureLoop(_, _, _, _, _)
ClosureLoop(tr, targets, i, stk, closure) ==
    IF i <= Len(targets) THEN
        IF targets[i] \notin closure
        THEN ClosureLoop(tr, targets, i + 1, Append(stk, targets[i]), closure \cup {targets[i]})
        ELSE ClosureLoop(tr, targets, i + 1, stk, closure)
    ELSE IF stk # <<>>
         THEN ClosureLoop(tr, DictGet(tr[Top(stk)], EPS), 1, Pop(stk), closure)
         ELSE closure

\* a closure that follows the epsilon transitions of the seed states only
epsilon_closure_shallow(tr, states) ==
    Range(states) \cup UNION {Range(DictGet(tr[x], EPS)) : x \in Range(states)}

\* states is the list that list(states) produced
epsilon_closure(tr, states) == ClosureLoop(tr, <<>>, 1, states, Range(states))

move(tr, states, symbol) ==
    UNION {Range(tr[s][symbol]) : s \in {x \in states : symbol \in DOMAIN tr[x]}}

----------------------------------------------------------------------------
(* nfa_to_dfa: the pieces of one step *)

\* DFAState.__init__
DFAState(nfa_states) ==
    [nfa_states |-> nfa_states, transitions |-> EmptyDict, is_accept |-> FALSE]

\* the symbols of the two loops "for symbol in 'ab'"
CompletionSymbols == {"a", "b"}

\* a dead state whose transitions lead back to the start state
DeadState_tostart(idx) ==
    [DFAState({}) EXCEPT !.transitions = [s \in CompletionSymbols |-> 1]]

\* the dead state, created as object number idx
DeadState(idx) ==
    [DFAState({}) EXCEPT !.transitions = [s \in CompletionSymbols |-> idx]]

\* nfa_accept in closure
AcceptFlag(closure, accept) == accept \in closure

\* a novelty test that takes every closure for a new state
IsNewState_always(closure, states) == TRUE

\* closure not in dfa_states
IsNewState(closure, states) == closure \notin DOMAIN states

\* the set the inner for loop iterates over
SymbolsOf(tr, nfa_states) ==
    {char \in UNION {DOMAIN tr[s] : s \in nfa_states} : char # EPS}

\* what the symbol loop leaves in dfa_objs, dfa_states and queue for one symbol
SymbolStep(objs, states, q, c, symbol, closure, accept) ==
    LET new == IsNewState(closure, states)
        idx == IF new THEN Len(objs) + 1 ELSE states[closure]
        created == [DFAState(closure) EXCEPT !.is_accept = AcceptFlag(closure, accept)]
        objs1 == IF new THEN Append(objs, created) ELSE objs
    IN [objs |-> [objs1 EXCEPT ![c].transitions = DictSet(@, symbol, idx)],
        states |-> IF new THEN (closure :> idx) @@ states ELSE states,
        queue |-> IF new THEN Append(q, idx) ELSE q]

\* a completion loop without its "not in" test
CompleteStep_overwrite(transitions, dead) ==
    [s \in DOMAIN transitions \cup CompletionSymbols |->
        IF s \in CompletionSymbols THEN dead ELSE transitions[s]]

\* for symbol in 'ab': if symbol not in transitions: transitions[symbol] = dead_state
CompleteStep(transitions, dead) ==
    [s \in DOMAIN transitions \cup CompletionSymbols |->
        IF s \in DOMAIN transitions THEN transitions[s] ELSE dead]

----------------------------------------------------------------------------
(* The pipeline regex_to_dfa, one loop iteration per step *)

Init ==
    /\ regex \in Inputs
    /\ pc = "postfix_start"
    /\ err = ""
    /\ modified = <<>>
    /\ pos = 1
    /\ stack = <<>>
    /\ output = <<>>
    /\ postfix = <<>>
    /\ nstack = <<>>
    /\ trans = <<>>
    /\ nfa_start = 0
    /\ nfa_accept = 0
    /\ dfa_objs = <<>>
    /\ dfa_states = EmptyDict
    /\ queue = <<>>
    /\ dfa_start = 0
    /\ dead_state = 0
    /\ cur = 0
    /\ syms_left = {}
    /\ ec_in = <<>>
    /\ ec_out = {}
    /\ ec_twice = {}

postfixVars == <<modified, stack, output, postfix>>
nfaVars == <<nstack, trans, nfa_start, nfa_accept>>
dfaVars == <<dfa_objs, dfa_states, queue, dfa_start, dead_state, cur, syms_left>>
ecVars == <<ec_in, ec_out, ec_twice>>

\* modified_regex = self.insert_concatenation_operators(self.regex)
InsertConcat ==
    /\ pc = "postfix_start"
    /\ modified' = insert_concatenation_operators(regex)
    /\ pc' = "postfix_scan"
    /\ pos' = 1
    /\ UNCHANGED <<regex, err, stack, output, postfix, nfaVars, dfaVars, ecVars>>

\* for char in modified_regex: ...
ScanChar ==
    /\ pc = "postfix_scan"
    /\ pos <= Len(modified)
    /\ LET r == PostfixStep(stack, output, modified[pos])
       IN /\ stack' = r.stack
          /\ output' = r.output
          /\ pc' = IF r.raised THEN "error" ELSE pc
          /\ err' = IF r.raised THEN "regex_to_postfix: pop from empty list" ELSE err
    /\ pos' = pos + 1
    /\ UNCHANGED <<regex, modified, postfix, nfaVars, dfaVars, ecVars>>

\* while stack: output.append(stack.pop()); return ''.join(output)
ReturnPostfix ==
    /\ pc = "postfix_scan"
    /\ pos > Len(modified)
    /\ output' = Drain(stack, output)
    /\ stack' = <<>>
    /\ postfix' = output'
    /\ pc' = "nfa_scan"
    /\ pos' = 1
    /\ UNCHANGED <<regex, err, modified, nfaVars, dfaVars, ecVars>>

\* for char in postfix: ...
NfaToken ==
    /\ pc = "nfa_scan"
    /\ pos <= Len(postfix)
    /\ LET r == NfaStep(nstack, trans, postfix[pos])
       IN /\ nstack' = r.stack
          /\ trans' = r.trans
          /\ pc' = IF r.raised THEN "error" ELSE pc
          /\ err' = IF r.raised THEN "construct_nfa: pop from empty list" ELSE err
    /\ pos' = pos + 1
    /\ UNCHANGED <<regex, postfixVars, nfa_start, nfa_accept, dfaVars, ecVars>>

\* return stack.pop()
NfaReturn ==
    /\ pc = "nfa_scan"
    /\ pos > Len(postfix)
    /\ IF nstack = <<>>
       THEN /\ pc' = "error"
            /\ err' = "construct_nfa: pop from empty list"
            /\ UNCHANGED <<nstack, nfa_start, nfa_accept>>
       ELSE /\ pc' = "dfa_init"
            /\ nfa_start' = Top(nstack)[1]
            /\ nfa_accept' = Top(nstack)[2]
            /\ nstack' = Pop(nstack)
            /\ err' = err
    /\ UNCHANGED <<regex, pos, postfixVars, trans, dfaVars, ecVars>>

\* nfa_to_dfa up to its while loop
DfaInit ==
    /\ pc = "dfa_init"
    /\ LET start_closure == epsilon_closure(trans, <<nfa_start>>)
           start == [DFAState(start_closure) EXCEPT
                        !.is_accept = AcceptFlag(start_closure, nfa_accept)]
       IN /\ dfa_objs' = <<start, DeadState(2)>>
          /\ dfa_states' = ({} :> 2) @@ (start_closure :> 1)
    /\ dfa_start' = 1
    /\ dead_state' = 2
    /\ queue' = <<1>>
    /\ cur' = 0
    /\ syms_left' = {}
    /\ pc' = "dfa_loop"
    /\ UNCHANGED <<regex, err, pos, postfixVars, nfaVars, ecVars>>

\* current_dfa_state = queue.pop(0), and the set the for loop will iterate
Dequeue ==
    /\ pc = "dfa_loop"
    /\ cur = 0
    /\ queue # <<>>
    /\ cur' = Head(queue)
    /\ queue' = Tail(queue)
    /\ syms_left' = SymbolsOf(trans, dfa_objs[Head(queue)].nfa_states)
    /\ UNCHANGED <<regex, pc, err, pos, postfixVars, nfaVars, dfa_objs, dfa_states,
                   dfa_start, dead_state, ecVars>>

\* one iteration of "for symbol in set(...)": any symbol not visited yet
DfaSymbol ==
    /\ pc = "dfa_loop"
    /\ cur # 0
    /\ \E symbol \in syms_left :
         \E listed \in ListOf(move(trans, dfa_objs[cur].nfa_states, symbol)) :
            LET closure == epsilon_closure(trans, listed)
                r == SymbolStep(dfa_objs, dfa_states, queue, cur, symbol, closure, nfa_accept)
            IN /\ dfa_objs' = r.objs
               /\ dfa_states' = r.states
               /\ queue' = r.queue
               /\ syms_left' = syms_left \ {symbol}
    /\ UNCHANGED <<regex, pc, err, pos, postfixVars, nfaVars, dfa_start, dead_state,
                   cur, ecVars>>

\* the completion loop that ends an iteration of the while loop
Complete ==
    /\ pc = "dfa_loop"
    /\ cur # 0
    /\ syms_left = {}
    /\ dfa_objs' = [dfa_objs EXCEPT ![cur].transitions = CompleteStep(@, dead_state)]
    /\ cur' = 0
    /\ UNCHANGED <<regex, pc, err, pos, postfixVars, nfaVars, dfa_states, queue,
                   dfa_start, dead_state, syms_left, ecVars>>

\* return dfa_start, dfa_states
DfaReturn ==
    /\ pc = "dfa_loop"
    /\ cur = 0
    /\ queue = <<>>
    /\ pc' = "done"
    /\ UNCHANGED <<regex, err, pos, postfixVars, nfaVars, dfaVars, ecVars>>

Next ==
    \/ InsertConcat
    \/ ScanChar
    \/ ReturnPostfix
    \/ NfaToken
    \/ NfaReturn
    \/ DfaInit
    \/ Dequeue
    \/ DfaSymbol
    \/ Complete
    \/ DfaReturn

Spec == Init /\ [][Next]_vars

----------------------------------------------------------------------------
(* Reference semantics, independent of the pipeline *)

\* the grammar of the input language: U ::= C | U+C, C ::= S | C S,
\* S ::= A | S*, A ::= literal | (U)
RECURSIVE IsU(_), IsC(_), IsS(_), IsA(_)
IsA(r) ==
    \/ Len(r) = 1 /\ r[1] \in Literals
    \/ Len(r) >= 3 /\ r[1] = "(" /\ r[Len(r)] = ")" /\ IsU(SubSeq(r, 2, Len(r) - 1))

IsS(r) ==
    \/ IsA(r)
    \/ Len(r) >= 2 /\ r[Len(r)] = "*" /\ IsS(SubSeq(r, 1, Len(r) - 1))

IsC(r) ==
    \/ IsS(r)
    \/ \E k \in 1..(Len(r) - 1) :
         IsS(SubSeq(r, k + 1, Len(r))) /\ IsC(SubSeq(r, 1, k))

IsU(r) ==
    \/ IsC(r)
    \/ \E k \in 2..(Len(r) - 1) :
         r[k] = "+" /\ IsC(SubSeq(r, k + 1, Len(r))) /\ IsU(SubSeq(r, 1, k - 1))

WellFormed(r) == IsU(r)

\* s belongs to the language of r (r well-formed), by structural recursion
RECURSIVE InU(_, _), InC(_, _), InS(_, _), InA(_, _)
InA(r, s) ==
    IF Len(r) = 1 THEN s = r ELSE InU(SubSeq(r, 2, Len(r) - 1), s)

InS(r, s) ==
    IF IsA(r) THEN InA(r, s)
    ELSE LET x == SubSeq(r, 1, Len(r) - 1)
         IN \/ s = <<>>
            \/ \E k \in 1..Len(s) :
                 InS(x, SubSeq(s, 1, k)) /\ InS(r, SubSeq(s, k + 1, Len(s)))

InC(r, s) ==
    IF IsS(r) THEN InS(r, s)
    ELSE \E k \in 1..(Len(r) - 1) :
           /\ IsS(SubSeq(r, k + 1, Len(r)))
           /\ IsC(SubSeq(r, 1, k))
           /\ \E j \in 0..Len(s) :
                /\ InC(SubSeq(r, 1, k), SubSeq(s, 1, j))
                /\ InS(SubSeq(r, k + 1, Len(r)), SubSeq(s, j + 1, Len(s)))

InU(r, s) ==
    IF IsC(r) THEN InC(r, s)
    ELSE \E k \in 2..(Len(r) - 1) :
           /\ r[k] = "+"
           /\ IsC(SubSeq(r, k + 1, Len(r)))
           /\ IsU(SubSeq(r, 1, k - 1))
           /\ InU(SubSeq(r, 1, k - 1), s) \/ InC(SubSeq(r, k + 1, Len(r)), s)

Matches(r, s) == InU(r, s)

\* the states reachable from S by zero or more epsilon moves, as a fixed point
RECURSIVE EpsReach(_, _)
EpsReach(tr, S) ==
    LET T == S \cup UNION {Range(DictGet(tr[x], EPS)) : x \in S}
    IN IF T = S THEN S ELSE EpsReach(tr, T)

\* direct simulation of the NFA on s from position i with current states S
RECURSIVE NfaRun(_, _, _)
NfaRun(S, s, i) ==
    IF i > Len(s) THEN nfa_accept \in S
    ELSE NfaRun(EpsReach(trans, UNION {Range(DictGet(trans[x], s[i])) : x \in S}), s, i + 1)

NfaAccepts(s) == NfaRun(EpsReach(trans, {nfa_start}), s, 1)

\* following the DFA's transitions from object d, symbol by symbol
RECURSIVE DfaRun(_, _, _)
DfaRun(d, s, i) ==
    IF i > Len(s) THEN dfa_objs[d].is_accept
    ELSE IF s[i] \in DOMAIN dfa_objs[d].transitions
         THEN DfaRun(dfa_objs[d].transitions[s[i]], s, i + 1)
         ELSE FALSE

DfaAccepts(s) == DfaRun(dfa_start, s, 1)

Strings == UNION {[1..n -> Literals] : n \in 0..MaxStr}

----------------------------------------------------------------------------
(* C1 *)

\* C1: for every well-formed regex the pipeline returns a DFA, and on every
\* string over the literals up to MaxStr symbols the DFA accepts iff the
\* direct NFA simulation accepts iff the string is in the language of the
\* regex; for the canonical example it accepts "ac", "bac", "cabbac" and
\* rejects "ab" and "".
C1_LanguageEquivalence ==
    /\ pc = "error" => ~WellFormed(regex)
    /\ (pc = "done" /\ WellFormed(regex)) =>
          \A s \in Strings :
             /\ DfaAccepts(s) = NfaAccepts(s)
             /\ NfaAccepts(s) = Matches(regex, s)
    /\ (pc = "done" /\ regex = Canonical) =>
          /\ DfaAccepts(<<"a", "c">>)
          /\ DfaAccepts(<<"b", "a", "c">>)
          /\ DfaAccepts(<<"c", "a", "b", "b", "a", "c">>)
          /\ NfaAccepts(<<"c", "a", "b", "b", "a", "c">>)
          /\ ~DfaAccepts(<<"a", "b">>)
          /\ ~DfaAccepts(<<>>)

C1_Witness ==
    /\ pc = "done"
    /\ regex = Canonical
    /\ WellFormed(regex)
    /\ DfaAccepts(<<"c", "a", "b", "b", "a", "c">>)
    /\ Matches(regex, <<"b", "a", "c">>)

----------------------------------------------------------------------------
(* C2 *)

\* every literal occurring in the regex, together with 'a' and 'b'
Alphabet(r) == (Range(r) \cap Literals) \cup CompletionSymbols

\* the DFA objects reachable from the start state through transitions
RECURSIVE DfaReach(_)
DfaReach(S) ==
    LET T == S \cup UNION {Range(dfa_objs[d].transitions) : d \in S}
    IN IF T = S THEN S ELSE DfaReach(T)

\* C2: after nfa_to_dfa returns, every DFA state reachable from the start
\* state holds a transition for every symbol of the alphabet (the literals
\* of the regex together with 'a' and 'b').
C2_TotalTransitions ==
    pc = "done" =>
       \A d \in DfaReach({dfa_start}) :
          \A symbol \in Alphabet(regex) : symbol \in DOMAIN dfa_objs[d].transitions

----------------------------------------------------------------------------
(* C3 *)

\* the parentheses of r up to position i match: depth never negative
RECURSIVE Depth(_, _)
Depth(r, i) ==
    IF i = 0 THEN 0
    ELSE LET d == Depth(r, i - 1)
         IN IF d < 0 THEN d
            ELSE IF r[i] = "(" THEN d + 1
            ELSE IF r[i] = ")" THEN d - 1
            ELSE d

Balanced(r) == Depth(r, Len(r)) = 0

\* C3: on a regex with unbalanced parentheses regex_to_postfix raises instead
\* of returning, so the pipeline never gets past it.
C3_UnbalancedRaises ==
    ~Balanced(regex) =>
       \/ pc \in {"postfix_start", "postfix_scan"}
       \/ pc = "error" /\ err = "regex_to_postfix: pop from empty list"

----------------------------------------------------------------------------
(* C4 *)

\* C4: for the empty regex regex_to_postfix returns the empty postfix and
\* construct_nfa returns a (start, accept) pair instead of raising.
C4_EmptyRegexBuilds ==
    regex = <<>> =>
       /\ pc \notin {"postfix_start", "postfix_scan"} => postfix = <<>>
       /\ pc # "error"

----------------------------------------------------------------------------
(* C5 *)

\* C5: the dead state has the empty defining set, is not accepting, every
\* transition it has targets itself, no string run from it is accepted, it is
\* the state stored under the empty defining set, and no other DFA state has
\* an empty defining set.
C5_DeadStateAbsorbing ==
    pc \in {"dfa_loop", "done"} =>
       /\ {} \in DOMAIN dfa_states
       /\ dfa_states[{}] = dead_state
       /\ dfa_objs[dead_state].nfa_states = {}
       /\ ~dfa_objs[dead_state].is_accept
       /\ \A symbol \in DOMAIN dfa_objs[dead_state].transitions :
             dfa_objs[dead_state].transitions[symbol] = dead_state
       /\ \A s \in Strings : ~DfaRun(dead_state, s, 1)
       /\ \A d \in DOMAIN dfa_objs : dfa_objs[d].nfa_states = {} => d = dead_state

\* a returned DFA whose start state falls into the dead state on some symbol
C5_Witness ==
    /\ pc = "done"
    /\ \E symbol \in CompletionSymbols :
          /\ symbol \in DOMAIN dfa_objs[dfa_start].transitions
          /\ dfa_objs[dfa_start].transitions[symbol] = dead_state
    /\ \E d \in DfaReach({dfa_start}) : dfa_objs[d].is_accept

----------------------------------------------------------------------------
(* C7 *)

\* fragments the token needs on the stack
Operands(char) ==
    CASE char = "*" -> 1
      [] char = "." -> 2
      [] char = "+" -> 2
      [] OTHER -> 0

C7_AtMostOneAtEnd ==
    /\ (pc = "nfa_scan" /\ pos > Len(postfix)) => Len(nstack) <= 1
    /\ pc \in {"dfa_init", "dfa_loop", "done"} =>
          /\ nstack = <<>>
          /\ nfa_start \in DOMAIN trans
          /\ nfa_accept \in DOMAIN trans

C7_ReturnsTheFragment ==
    (pc = "nfa_scan" /\ pc' = "dfa_init") => nstack = <<(<<nfa_start', nfa_accept'>>)>>

C7_UnderflowRaises ==
    (pc = "nfa_scan" /\ pos <= Len(postfix) /\ Len(nstack) < Operands(postfix[pos]))
       => (pc' = "error" /\ err' = "construct_nfa: pop from empty list")

\* C7: when construct_nfa returns, exactly one fragment was on its stack at
\* the end of the token scan and its (start, accept) pair is the result; an
\* operator token that finds too few fragments raises.
C7_SingleFragment ==
    /\ []C7_AtMostOneAtEnd
    /\ [][C7_ReturnsTheFragment]_vars
    /\ [][C7_UnderflowRaises]_vars

\* construct_nfa returned on a postfix with a star followed by a literal
C7_Witness ==
    /\ pc = "dfa_init"
    /\ nstack = <<>>
    /\ \E i \in 1..(Len(regex) - 1) : regex[i] = "*" /\ regex[i + 1] \in Literals

----------------------------------------------------------------------------
(* C10 *)

C10_AcceptsAreBare ==
    pc = "nfa_scan" => \A i \in DOMAIN nstack : DOMAIN trans[nstack[i][2]] = {}

C10_NothingDiscarded ==
    pc = "nfa_scan" =>
       \A x \in DOMAIN trans : \A k \in DOMAIN trans[x] :
          k \in DOMAIN trans'[x] /\ trans'[x][k] = trans[x][k]

\* C10: throughout construct_nfa the accept state of every fragment on the
\* stack has an empty transitions dict, and no step of construct_nfa removes
\* or overwrites a transition recorded earlier.
C10_SingleExit ==
    /\ []C10_AcceptsAreBare
    /\ [][C10_NothingDiscarded]_vars

\* the token scan of the canonical example is over: star, concatenation and
\* union have all spliced operand accept states
C10_Witness ==
    /\ pc = "nfa_scan"
    /\ pos > Len(postfix)
    /\ regex = Canonical
    /\ Len(nstack) = 1
    /\ \E x \in DOMAIN trans : EPS \in DOMAIN trans[x] /\ Len(trans[x][EPS]) = 1

----------------------------------------------------------------------------
(* C9 *)

\* the subset construction as a function of the NFA alone
RefMove(S, symbol) == UNION {Range(DictGet(trans[x], symbol)) : x \in S}

RefSymbols(S) == {symbol \in Literals : RefMove(S, symbol) # {}}

RefTarget(S, symbol) ==
    IF symbol \in RefSymbols(S) THEN EpsReach(trans, RefMove(S, symbol)) ELSE {}

RECURSIVE RefGrow(_)
RefGrow(F) ==
    LET G == F \cup {RefTarget(S, symbol) : S \in F, symbol \in Literals}
    IN IF G = F THEN F ELSE RefGrow(G)

\* the defining sets: those reachable from the start set, and the empty set
RefSets == RefGrow({EpsReach(trans, {nfa_start}), {}})

RefKeys(S) == IF S = {} THEN CompletionSymbols ELSE RefSymbols(S) \cup CompletionSymbols

\* C9: whatever order the symbols of a dequeued state are visited in, the
\* returned DFA is the one the NFA determines: the same defining sets, accept
\* flags, start set, and map (defining set, symbol) -> target defining set.
C9_OrderIndependent ==
    pc = "done" =>
       /\ DOMAIN dfa_states = RefSets
       /\ Len(dfa_objs) = Cardinality(RefSets)
       /\ dfa_objs[dfa_start].nfa_states = EpsReach(trans, {nfa_start})
       /\ \A D \in DOMAIN dfa_states :
             LET obj == dfa_objs[dfa_states[D]]
             IN /\ obj.nfa_states = D
                /\ obj.is_accept = (nfa_accept \in D)
                /\ DOMAIN obj.transitions = RefKeys(D)
                /\ \A symbol \in DOMAIN obj.transitions :
                      dfa_objs[obj.transitions[symbol]].nfa_states = RefTarget(D, symbol)

\* a returned DFA whose start state had several symbols, visited in an order
\* other than the alphabetical one
C9_Witness ==
    /\ pc = "done"
    /\ {"a", "b"} \subseteq SymbolsOf(trans, dfa_objs[dfa_start].nfa_states)
    /\ dfa_objs[dfa_start].transitions["b"] < dfa_objs[dfa_start].transitions["a"]
    /\ dfa_objs[dfa_start].transitions["b"] # dead_state

----------------------------------------------------------------------------
(* C8 *)

C8_EnqueueOnlyNew ==
    (pc = "dfa_loop" /\ Len(queue') > Len(queue)) =>
       /\ queue' = Append(queue, Len(dfa_objs) + 1)
       /\ Len(dfa_objs') = Len(dfa_objs) + 1
       /\ dfa_objs'[Len(dfa_objs')].nfa_states \notin DOMAIN dfa_states

C8_DistinctInQueue ==
    pc = "dfa_loop" =>
       \A i, j \in DOMAIN queue :
          dfa_objs[queue[i]].nfa_states = dfa_objs[queue[j]].nfa_states => i = j

\* work the loop still has to do: the defining sets not discovered yet (out
\* of the subsets of the NFA's states), the queued states, and the symbols
\* left for the current state
C8_Weight == Cardinality(Literals) + 2

C8_Measure ==
    IF pc # "dfa_loop" THEN 0
    ELSE 1 + (2 ^ Len(trans) - Cardinality(DOMAIN dfa_states)) * (C8_Weight + 1)
           + Len(queue) * C8_Weight
           + (IF cur # 0 THEN 1 + Cardinality(syms_left) ELSE 0)

C8_MeasureDecreases ==
    pc = "dfa_loop" => (C8_Measure' < C8_Measure /\ C8_Measure' >= 0)

\* C8: a DFA state is enqueued only when its defining set is first
\* discovered, the queue never holds a defining set twice, and every step of
\* the worklist loop strictly decreases a natural number bounded by the
\* number of subsets of the NFA's states, so the loop ends: every run of
\* nfa_to_dfa that is not yet over can only end in its return.
C8_WorklistTerminates ==
    /\ [][C8_EnqueueOnlyNew]_vars
    /\ []C8_DistinctInQueue
    /\ [][C8_MeasureDecreases]_vars

\* the loop has ended on an NFA with an epsilon cycle and some DFA state was
\* rediscovered (more transitions recorded than states created)
C8_Witness ==
    /\ pc = "done"
    /\ \E i \in DOMAIN regex : regex[i] = "*"
    /\ Len(dfa_objs) >= 4
    /\ \E d \in DOMAIN dfa_objs : d # dead_state /\ d \in Range(dfa_objs[d].transitions)

----------------------------------------------------------------------------
(* Direct calls of epsilon_closure on a constructed NFA *)

\* the non-empty sets of at most MaxSeed NFA states, and the empty set
Seeds == {{}} \cup {Range(f) : f \in [1..MaxSeed -> DOMAIN trans]}

\* epsilon_closure(S) for a seed set S of the constructed NFA
ClosureCall ==
    /\ pc = "dfa_init"
    /\ \E S \in Seeds : \E listed \in ListOf(S) :
          /\ ec_in' = listed
          /\ ec_out' = epsilon_closure(trans, listed)
    /\ pc' = "closure_once"
    /\ UNCHANGED <<regex, err, pos, postfixVars, nfaVars, dfaVars, ec_twice>>

\* epsilon_closure(epsilon_closure(S))
ClosureAgain ==
    /\ pc = "closure_once"
    /\ \E listed \in ListOf(ec_out) : ec_twice' = epsilon_closure(trans, listed)
    /\ pc' = "closure_twice"
    /\ UNCHANGED <<regex, err, pos, postfixVars, nfaVars, dfaVars, ec_in, ec_out>>

NextClosure ==
    \/ InsertConcat
    \/ ScanChar
    \/ ReturnPostfix
    \/ NfaToken
    \/ NfaReturn
    \/ ClosureCall
    \/ ClosureAgain

SpecClosure == Init /\ [][NextClosure]_vars

----------------------------------------------------------------------------
(* C6 *)

\* T is closed under epsilon transitions
EpsClosed(T) == \A x \in T : Range(DictGet(trans[x], EPS)) \subseteq T

\* NFAs up to this many states are checked against every closed superset
MaxMinimal == 8

\* C6: epsilon_closure(S) returns, in whatever order S is listed, the states
\* reachable from S by epsilon moves: a superset of S closed under epsilon
\* transitions and contained in every closed superset of S; applying
\* epsilon_closure to the result returns the result.
C6_ClosureIsLeastFixedPoint ==
    /\ pc \in {"closure_once", "closure_twice"} =>
          /\ Range(ec_in) \subseteq ec_out
          /\ EpsClosed(ec_out)
          /\ ec_out = EpsReach(trans, Range(ec_in))
          /\ Len(trans) <= MaxMinimal =>
                \A T \in SUBSET DOMAIN trans :
                   (Range(ec_in) \subseteq T /\ EpsClosed(T)) => ec_out \subseteq T
    /\ pc = "closure_twice" => ec_twice = ec_out

\* both calls returned on an NFA with an epsilon cycle, the first from a seed
\* on the cycle that it had to extend
C6_Witness ==
    /\ pc = "closure_twice"
    /\ \E x \in Range(ec_in) :
          x \in EpsReach(trans, Range(DictGet(trans[x], EPS)))
    /\ Cardinality(ec_out) > Len(ec_in) + 2
    /\ ec_twice = ec_out

====
